---- MODULE Spec2Model ----
(***************************************************************************)
(* TerraWeb: role-based access control spanning the Express server        *)
(* (server/auth.ts, server/routes.ts, server/storage.ts) and the React     *)
(* client (client/src/hooks/use-auth.tsx).                                 *)
(*                                                                         *)
(* Three specifications share one set of variables:                        *)
(*   SpecRoles  - the pure role functions applied to drawn inputs          *)
(*   SpecAuth   - login / logout / current user over the session store     *)
(*   SpecRoutes - the guarded resource routes over the data stores         *)
(***************************************************************************)
EXTENDS Integers, Sequences, FiniteSets, TLC

(***************************************************************************)
(* JavaScript values that the role comparison can meet.  A lookup in the   *)
(* object literal { admin: 3, technician: 2, user: 1 } yields a number for *)
(* an own key, a member of Object.prototype (a function or an object) for  *)
(* an inherited key, and undefined for anything else.                      *)
(***************************************************************************)
Num(n) == [t |-> "num", n |-> n]

Undef == [t |-> "undef", n |-> 0]

ProtoMember == [t |-> "obj", n |-> 0]

\* role value of an identity whose role field is missing (JS undefined)
Undefined == "<undefined>"

\* names every object literal inherits from Object.prototype
ObjectPrototypeKeys == {"constructor", "toString", "valueOf", "hasOwnProperty", "__proto__"}

\* a >= b in JavaScript: ToNumber of undefined, of a function and of a plain
\* object is NaN, and every comparison with NaN is false
JSGe(a, b) == a.t = "num" /\ b.t = "num" /\ a.n >= b.n

\* a < b in JavaScript, false as well when either side is NaN
JSLt(a, b) == a.t = "num" /\ b.t = "num" /\ a.n < b.n

\* ToBoolean: undefined and 0 are falsy, objects and functions are truthy
JSTruthy(v) == \/ v.t = "obj"
               \/ v.t = "num" /\ v.n # 0

\* a || b
JSOr(a, b) == IF JSTruthy(a) THEN a ELSE b

(***************************************************************************)
(* Client role hierarchy, hooks/use-auth.tsx                               *)
(***************************************************************************)
roleHierarchy(k) ==
  CASE k = "admin" -> Num(3)
    [] k = "technician" -> Num(2)
    [] k = "user" -> Num(1)
    [] k \in ObjectPrototypeKeys -> ProtoMember
    [] OTHER -> Undef

hasRoleStrict(userRole, requiredRole) ==
  roleHierarchy(userRole).t = "num"
    /\ roleHierarchy(userRole).n > roleHierarchy(requiredRole).n

hasRole(userRole, requiredRole) ==
  JSGe(roleHierarchy(userRole), roleHierarchy(requiredRole))

canAccessAnalytics(userRole) == hasRole(userRole, "technician")

canManageSensors(userRole) == hasRole(userRole, "technician")

canExportData(userRole) == hasRole(userRole, "technician")

canManageUsers(userRole) == hasRole(userRole, "admin")

canAccessAdvancedSettings(userRole) == hasRole(userRole, "admin")

\* user.role || "user" in AuthProvider
RoleOrUser(role) == IF role \in {"", Undefined} THEN "user" ELSE role

checkRoleNullAsUser(user, requiredRole) ==
  IF user = <<>> THEN hasRole("user", requiredRole)
  ELSE hasRole(RoleOrUser(user[1].role), requiredRole)

\* AuthProvider's hasRole: user ? hasRole(user.role || "user", requiredRole) : false
checkRole(user, requiredRole) ==
  IF user = <<>> THEN FALSE ELSE hasRole(RoleOrUser(user[1].role), requiredRole)

\* the permission methods of the AuthProvider context, by name
ContextPermissionLax(perm, user) ==
  IF user = <<>> THEN FALSE
  ELSE hasRole(RoleOrUser(user[1].role), "technician")

ContextPermission(perm, user) ==
  IF user = <<>> THEN FALSE
  ELSE LET role == RoleOrUser(user[1].role)
       IN  CASE perm = "canAccessAnalytics" -> canAccessAnalytics(role)
             [] perm = "canManageSensors" -> canManageSensors(role)
             [] perm = "canExportData" -> canExportData(role)
             [] perm = "canManageUsers" -> canManageUsers(role)
             [] perm = "canAccessAdvancedSettings" -> canAccessAdvancedSettings(role)
             [] perm = "canAccessAdminPanel" -> canManageUsers(role)

(***************************************************************************)
(* RoleGuard, lib/role-guard.tsx                                           *)
(***************************************************************************)
\* a ReactNode that is null
Null == "<null>"

\* if (fallback): an absent and a null node are falsy, an element is truthy
NodeTruthy(node) == node \notin {Undefined, Null}

\* the word the default notice uses for the required role
RoleWord(requiredRole) ==
  CASE requiredRole = "admin" -> "administrador"
    [] requiredRole = "technician" -> "tecnico"
    [] OTHER -> "usuario"

\* the notice of a guard without a required role names no role
GenericNotice == "No tienes permisos"

GuardHasAccessPermissionWins(props, user) ==
  LET roleAsked == props.requiredRole # Undefined
      afterRole == IF roleAsked THEN checkRole(user, props.requiredRole) ELSE TRUE
      permAsked == props.requiredPermission # Undefined
  IN  [hasAccess |-> IF permAsked
                       THEN ContextPermission(props.requiredPermission, user)
                       ELSE afterRole,
       called |-> (IF roleAsked THEN {"hasRole"} ELSE {})
                    \cup (IF permAsked THEN {props.requiredPermission} ELSE {})]

\* let hasAccess = true; if (requiredRole) ...; if (requiredPermission &&
\* hasAccess) ...: the decision, and the context methods called to reach it
GuardHasAccess(props, user) ==
  LET roleAsked == props.requiredRole # Undefined
      afterRole == IF roleAsked THEN checkRole(user, props.requiredRole) ELSE TRUE
      permAsked == props.requiredPermission # Undefined /\ afterRole
  IN  [hasAccess |-> IF permAsked
                       THEN ContextPermission(props.requiredPermission, user)
                       ELSE afterRole,
       called |-> (IF roleAsked THEN {"hasRole"} ELSE {})
                    \cup (IF permAsked THEN {props.requiredPermission} ELSE {})]

RoleGuardFallbackFirst(props, user) ==
  LET access == GuardHasAccess(props, user)
      shown == IF access.hasAccess THEN "children"
               ELSE IF NodeTruthy(props.fallback) THEN "fallback"
               ELSE IF props.hideWhenNoAccess THEN "nothing"
               ELSE "notice"
  IN  [hasAccess |-> access.hasAccess, called |-> access.called,
       shown |-> shown,
       text |-> IF shown # "notice" THEN ""
                ELSE IF props.requiredRole # Undefined
                  THEN RoleWord(props.requiredRole)
                  ELSE GenericNotice]

\* what the component returns: the children, null, the fallback or the
\* default card, with the text of the card
RoleGuard(props, user) ==
  LET access == GuardHasAccess(props, user)
      shown == IF access.hasAccess THEN "children"
               ELSE IF props.hideWhenNoAccess THEN "nothing"
               ELSE IF NodeTruthy(props.fallback) THEN "fallback"
               ELSE "notice"
  IN  [hasAccess |-> access.hasAccess, called |-> access.called,
       shown |-> shown,
       text |-> IF shown # "notice" THEN ""
                ELSE IF props.requiredRole # Undefined
                  THEN RoleWord(props.requiredRole)
                  ELSE GenericNotice]

(***************************************************************************)
(* Authorization middleware, server/auth.ts                                *)
(***************************************************************************)
\* an optional value: <<>> is undefined, <<x>> is x
None == <<>>

Some(x) == <<x>>

\* a fresh req.session, as express-session generates it: no user
EmptySession == [user |-> None]

Pass == [next |-> TRUE, status |-> 0, error |-> ""]

Reject(status, error) == [next |-> FALSE, status |-> status, error |-> error]

requireAuthKnownRole(session) ==
  IF session.user = None \/ session.user[1].role \notin {"admin", "technician", "user"}
    THEN Reject(401, "Authentication required")
    ELSE Pass

requireAuth(session) ==
  IF session.user = None
    THEN Reject(401, "Authentication required")
    ELSE Pass

serverRoleHierarchy(k) ==
  CASE k = "admin" -> Num(3)
    [] k = "technician" -> Num(2)
    [] k = "user" -> Num(1)
    [] k \in ObjectPrototypeKeys -> ProtoMember
    [] OTHER -> Undef

requireRole(requiredRole, session) ==
  IF session.user = None
    THEN Reject(401, "Authentication required")
    ELSE LET userLevel == JSOr(serverRoleHierarchy(session.user[1].role), Num(0))
             requiredLevel == serverRoleHierarchy(requiredRole)
         IN  IF JSLt(userLevel, requiredLevel)
               THEN Reject(403, "Insufficient permissions")
               ELSE Pass

(***************************************************************************)
(* State                                                                   *)
(***************************************************************************)
VARIABLES
  sessionStore,  \* storage.sessionStore: session id -> stored session
  issued,        \* number of session ids generated and kept so far
  cookie,        \* per browser, the session id in its cookie (0: none)
  req,           \* per browser, its request in flight on the server
  last,          \* the response sent last
  users,         \* MemStorage.users: user id -> User
  sensors,       \* MemStorage.sensors, in insertion order
  measurements,  \* MemStorage.measurements, in insertion order
  dataFiles,     \* MemStorage.dataFiles, in insertion order
  pin,           \* arguments drawn for the pure role functions
  pout,          \* their results
  client,        \* the AuthProvider of one browser tab: its query and mutations
  localStorage   \* window.localStorage of that tab: key -> stored string

vars == <<sessionStore, issued, cookie, req, last, users, sensors,
          measurements, dataFiles, pin, pout, client, localStorage>>

authVars == <<sessionStore, issued, cookie, req, last>>

dataVars == <<users, sensors, measurements, dataFiles>>

pureVars == <<pin, pout>>

clientVars == <<client, localStorage>>

\* bound on the number of session ids generated and kept in one run
MaxSid == 4

Clients == {"c1", "c2"}

(***************************************************************************)
(* The identity collaborator (FastAPI /login): the accounts it knows and   *)
(* the identity it returns for each.  The server stores data.role as it    *)
(* comes, so an account may carry any role string.                         *)
(***************************************************************************)
Identity(id, username, role) ==
  [id |-> id, username |-> username, role |-> role,
   access_token |-> "jwt", token_type |-> "bearer"]

Accounts ==
  [username \in {"admin", "tecnico", "cliente", "invitado", "mallory"} |->
     CASE username = "admin" -> Identity("u1", "admin", "admin")
       [] username = "tecnico" -> Identity("u3", "tecnico", "technician")
       [] username = "cliente" -> Identity("u2", "cliente", "user")
       [] username = "invitado" -> Identity("u4", "invitado", "guest")
       [] username = "mallory" -> Identity("u5", "mallory", "constructor")]

Idle ==
  [pc |-> "idle", sid0 |-> 0, orig |-> EmptySession, sid |-> 0,
   session |-> EmptySession, username |-> "", password |-> "",
   data |-> None, err |-> FALSE]

NoBody == [error |-> ""]

NoResponse ==
  [route |-> "none", client |-> "", status |-> 0, by |-> "", body |-> NoBody,
   session |-> EmptySession, sid0 |-> 0, sid |-> 0]

\* MemStorage.createDefaultAdmin: three seeded users outside production
SeedUsers ==
  [id \in {"u1", "u2", "u3"} |->
     CASE id = "u1" -> [id |-> "u1", username |-> "admin", password |-> "hash1", role |-> "admin"]
       [] id = "u2" -> [id |-> "u2", username |-> "cliente", password |-> "hash2", role |-> "user"]
       [] id = "u3" -> [id |-> "u3", username |-> "tecnico", password |-> "hash3", role |-> "technician"]]

NoUsers == [id \in {} |-> [id |-> "", username |-> "", password |-> "", role |-> ""]]

PureIdle ==
  [userRole |-> "user", requiredRole |-> "user", perm |-> "canAccessAnalytics",
   hasUser |-> TRUE]

GuardNone == [hasAccess |-> FALSE, called |-> {}, shown |-> "", text |-> ""]

PureNone ==
  [done |-> {}, hasRole |-> FALSE, server |-> Pass, perm |-> FALSE,
   auth |-> Pass, check |-> FALSE, context |-> FALSE, guard |-> GuardNone]

\* localStorage.getItem of a key that is not stored
Absent == [t |-> "null"]

\* a stored string that is not JSON text
Text(str) == [t |-> "text", s |-> str]

NoStorage == [user |-> Absent, access_token |-> Absent]

\* the AuthProvider before its query has run: data is undefined
ClientStart(app) ==
  [app |-> app, pc |-> "start", user |-> None, op |-> "none", result |-> "none",
   init |-> [cause |-> "none", threw |-> FALSE, value |-> None]]

\* no page is open
InitNoClient ==
  /\ client = ClientStart("none")
  /\ localStorage = NoStorage

InitServer ==
  /\ sessionStore = [s \in {} |-> EmptySession]
  /\ issued = 0
  /\ cookie = [c \in Clients |-> 0]
  /\ req = [c \in Clients |-> Idle]
  /\ last = NoResponse
  /\ users = SeedUsers
  /\ sensors = <<>>
  /\ measurements = <<>>
  /\ dataFiles = <<>>

Init ==
  /\ InitServer
  /\ InitNoClient
  /\ pin = PureIdle
  /\ pout = PureNone

(***************************************************************************)
(* express-session, configured in setupAuth: resave false,                 *)
(* saveUninitialized false, store storage.sessionStore                     *)
(***************************************************************************)
\* the session id and session a request of browser c starts with: the stored
\* session its cookie names, else a generated one
Known(c) == cookie[c] \in DOMAIN sessionStore

SessionID(c) == IF Known(c) THEN cookie[c] ELSE issued + 1

Session(c) == IF Known(c) THEN sessionStore[cookie[c]] ELSE EmptySession

\* the ids in use once the request of browser c has its session.  Ids are
\* numbered in the order they are generated; one generated for a request that
\* ends without saving its session is seen by nobody and is not counted.
Generated(c) == IF Known(c) THEN issued ELSE issued + 1

\* store.set(sid, session)
StoreSet(store, sid, session) ==
  [s \in DOMAIN store \cup {sid} |-> IF s = sid THEN session ELSE store[s]]

\* store.destroy(sid)
StoreDestroyKeep(store, sid) == store

StoreDestroy(store, sid) == [s \in DOMAIN store \ {sid} |-> store[s]]

Response(c, route, status, by, body, session, sid0, sid) ==
  [route |-> route, client |-> c, status |-> status, by |-> by, body |-> body,
   session |-> session, sid0 |-> sid0, sid |-> sid]

ErrorBody(msg) == [error |-> msg]

\* what express-session does when a response ends: the session is written to
\* the store, and its id to the cookie, when its id or content differs from
\* what the request started with (originalId, originalHash)
ShouldSave(r) == r.sid # r.sid0 \/ r.session # r.orig

EndStoreSynced(store, r) ==
  LET saved == IF ShouldSave(r) THEN StoreSet(store, r.sid, r.session) ELSE store
  IN  [s \in DOMAIN saved |->
         IF saved[s].user # None /\ saved[s].user[1].id \in DOMAIN users
           THEN [user |-> Some([saved[s].user[1] EXCEPT
                                  !.role = users[saved[s].user[1].id].role])]
           ELSE saved[s]]

EndStore(store, r) ==
  IF ShouldSave(r) THEN StoreSet(store, r.sid, r.session) ELSE store

EndCookie(ck, r) == IF ShouldSave(r) THEN r.sid ELSE ck

\* the request of browser c as the session middleware hands it to a route
Arrive(c) ==
  [Idle EXCEPT !.sid0 = SessionID(c), !.orig = Session(c),
               !.sid = SessionID(c), !.session = Session(c)]

(***************************************************************************)
(* POST /api/login, server/auth.ts setupAuth                               *)
(***************************************************************************)
Usernames ==
  {"", Undefined, "admin", "tecnico", "cliente", "invitado", "mallory", "nadie"}

Passwords == {"", "good", "bad", Undefined}

\* !v for a field of req.body: true when the field is missing or empty
MissingOnlyUndefined(v) == v = Undefined

Missing(v) == v \in {"", Undefined}

\* answers the collaborator can give: a connection failure, 401, another
\* non-2xx status, and 200 with the account's identity for good credentials
CollabOutcomes(username, password) ==
  {"unreachable", "401", "500"}
    \cup (IF username \in DOMAIN Accounts /\ password = "good" THEN {"ok"} ELSE {})

LoginBodyRoleUser(data) ==
  [id |-> data.id, username |-> data.username, role |-> "user",
   access_token |-> data.access_token, token_type |-> data.token_type]

LoginBody(data) ==
  [id |-> data.id, username |-> data.username, role |-> data.role,
   access_token |-> data.access_token, token_type |-> data.token_type]

\* lines 340-346: validation, then the call to the collaborator is sent
LoginStart(c, username, password) ==
  /\ req[c].pc = "idle"
  /\ Generated(c) + 1 <= MaxSid
  /\ IF Missing(username) \/ Missing(password)
       THEN /\ issued' = issued
            /\ last' = Response(c, "login", 400, "handler",
                                ErrorBody("Username and password are required"),
                                Session(c), SessionID(c), SessionID(c))
            /\ sessionStore' = EndStore(sessionStore, Arrive(c))
            /\ cookie' = [cookie EXCEPT ![c] = EndCookie(cookie[c], Arrive(c))]
            /\ req' = req
       ELSE /\ issued' = Generated(c)
            /\ req' = [req EXCEPT ![c] =
                         [Arrive(c) EXCEPT !.pc = "fetch", !.username = username,
                                           !.password = password]]
            /\ UNCHANGED <<last, sessionStore, cookie>>
  /\ UNCHANGED <<dataVars, pureVars>>

\* req.session after the collaborator answered: line 378 binds the identity
\* only once response.ok has been checked
SessionOnReplyEager(session, outcome, data) == [user |-> Some(data)]

SessionOnReply(session, outcome, data) ==
  IF outcome = "ok" THEN [user |-> Some(data)] ELSE session

\* store.destroy(req.sessionID) inside req.session.regenerate
RegenerateKeep(store, sid, err) == store

RegenerateDestroy(store, sid, err) ==
  IF err THEN store ELSE StoreDestroy(store, sid)

\* lines 362-387: the collaborator's answer arrives
LoginReply(c, outcome, err) ==
  /\ req[c].pc = "fetch"
  /\ outcome \in CollabOutcomes(req[c].username, req[c].password)
  /\ LET data == IF req[c].username \in DOMAIN Accounts
                   THEN Accounts[req[c].username]
                   ELSE Identity(Undefined, Undefined, Undefined)
         r == [req[c] EXCEPT !.session = SessionOnReply(req[c].session, outcome, data)]
     IN  IF outcome = "ok"
           THEN /\ sessionStore' = RegenerateDestroy(sessionStore, r.sid, err)
                /\ req' = [req EXCEPT ![c] =
                             [r EXCEPT !.pc = "regenerate", !.data = Some(data),
                                       !.err = err]]
                /\ UNCHANGED <<last, cookie>>
           ELSE /\ err = FALSE
                /\ last' = Response(c, "login",
                                    IF outcome = "401" THEN 401 ELSE 500, "handler",
                                    IF outcome = "401"
                                      THEN ErrorBody("Invalid username or password")
                                      ELSE ErrorBody("Internal server error"),
                                    r.session, r.sid0, r.sid)
                /\ sessionStore' = EndStore(sessionStore, r)
                /\ cookie' = [cookie EXCEPT ![c] = EndCookie(cookie[c], r)]
                /\ req' = [req EXCEPT ![c] = Idle]
  /\ UNCHANGED <<issued, dataVars, pureVars>>

\* req.session after regenerate called back: the generated session is empty,
\* and lines 394-400 bind the identity again unless err is set
SessionOnRegenerateUnchecked(err, data) == [user |-> Some(data)]

SessionOnRegenerate(err, data) ==
  IF err THEN EmptySession ELSE [user |-> Some(data)]

\* store.generate(req) inside regenerate: the session gets the next id
RegenerateSameID(sid0, n) == sid0

RegenerateID(sid0, n) == n + 1

\* lines 387-409: the callback of req.session.regenerate
LoginRegenerated(c) ==
  /\ req[c].pc = "regenerate"
  /\ LET newSid == RegenerateID(req[c].sid0, issued)
         data == req[c].data[1]
         r == [req[c] EXCEPT !.sid = newSid,
                             !.session = SessionOnRegenerate(req[c].err, data)]
     IN  /\ issued' = IF newSid > issued THEN newSid ELSE issued
         /\ last' = IF req[c].err
                      THEN Response(c, "login", 500, "handler",
                                    ErrorBody("Session error"),
                                    r.session, r.sid0, r.sid)
                      ELSE Response(c, "login", 200, "handler", LoginBody(data),
                                    r.session, r.sid0, r.sid)
         /\ sessionStore' = EndStore(sessionStore, r)
         /\ cookie' = [cookie EXCEPT ![c] = EndCookie(cookie[c], r)]
         /\ req' = [req EXCEPT ![c] = Idle]
  /\ UNCHANGED <<dataVars, pureVars>>

(***************************************************************************)
(* POST /api/logout and GET /api/user                                      *)
(***************************************************************************)
\* req.session.destroy: store.destroy(req.sessionID), then the callback
LogoutGuarded(c, err) ==
  /\ req[c].pc = "idle"
  /\ Generated(c) <= MaxSid
  /\ issued' = issued
  /\ sessionStore' = IF err THEN sessionStore
                     ELSE StoreDestroy(sessionStore, SessionID(c))
  /\ last' = IF Session(c).user = None
               THEN Response(c, "logout", 401, "handler", ErrorBody("Not authenticated"),
                             Session(c), SessionID(c), SessionID(c))
               ELSE Response(c, "logout", 200, "handler", NoBody,
                             Session(c), SessionID(c), SessionID(c))
  /\ UNCHANGED <<cookie, req, dataVars, pureVars>>

Logout(c, err) ==
  /\ req[c].pc = "idle"
  /\ Generated(c) <= MaxSid
  /\ issued' = issued
  /\ sessionStore' = IF err THEN sessionStore
                     ELSE StoreDestroy(sessionStore, SessionID(c))
  /\ last' = IF err
               THEN Response(c, "logout", 500, "handler", ErrorBody("Logout failed"),
                             Session(c), SessionID(c), SessionID(c))
               ELSE Response(c, "logout", 200, "handler", NoBody,
                             Session(c), SessionID(c), SessionID(c))
  /\ UNCHANGED <<cookie, req, dataVars, pureVars>>

\* the body GET /api/user builds from req.session.user
UserBodyWhole(user) == user

UserBody(user) == [id |-> user.id, username |-> user.username, role |-> user.role]

GetUser(c) ==
  /\ req[c].pc = "idle"
  /\ Generated(c) <= MaxSid
  /\ issued' = issued
  /\ last' = IF Session(c).user = None
               THEN Response(c, "user", 401, "handler", ErrorBody("Not authenticated"),
                             Session(c), SessionID(c), SessionID(c))
               ELSE Response(c, "user", 200, "handler", UserBody(Session(c).user[1]),
                             Session(c), SessionID(c), SessionID(c))
  /\ sessionStore' = EndStore(sessionStore, Arrive(c))
  /\ cookie' = [cookie EXCEPT ![c] = EndCookie(cookie[c], Arrive(c))]
  /\ UNCHANGED <<req, dataVars, pureVars>>

\* a browser comes to hold the session cookie of another one (a fixated or
\* shared session id)
ShareCookie(a, b) ==
  /\ a # b
  /\ cookie[a] # 0
  /\ cookie[a] # cookie[b]
  /\ req[b].pc = "idle"
  /\ cookie' = [cookie EXCEPT ![b] = cookie[a]]
  /\ UNCHANGED <<sessionStore, issued, req, last, dataVars, pureVars>>

\* the login names tried under SpecAuth
AuthUsernames == {"", Undefined, "admin", "cliente"}

NextAuth ==
  \/ \E c \in Clients, u \in AuthUsernames, p \in Passwords : LoginStart(c, u, p) /\ UNCHANGED clientVars
  \/ \E c \in Clients, o \in {"unreachable", "401", "500", "ok"}, e \in BOOLEAN :
       LoginReply(c, o, e) /\ UNCHANGED clientVars
  \/ \E c \in Clients : LoginRegenerated(c) /\ UNCHANGED clientVars
  \/ \E c \in Clients, e \in BOOLEAN : Logout(c, e) /\ UNCHANGED clientVars
  \/ \E c \in Clients : GetUser(c) /\ UNCHANGED clientVars
  \/ \E a, b \in Clients : ShareCookie(a, b) /\ UNCHANGED clientVars

SpecAuth == Init /\ [][NextAuth]_vars

\* what the event loop guarantees: the callback of req.session.regenerate,
\* once queued, runs.  Nothing in the handler bounds the wait for the
\* collaborator's answer: fetch is called without a signal or a timeout.
SpecAuthFair ==
  SpecAuth /\ \A c \in Clients : WF_vars(LoginRegenerated(c) /\ UNCHANGED clientVars)

(***************************************************************************)
(* Resource routes, server/routes.ts registerRoutes                        *)
(***************************************************************************)
\* bounds on the in-memory stores
MaxSensors == 2

MaxMeasurements == 3

MaxFiles == 1

\* a request that is answered in one turn of the event loop: the session is
\* loaded on arrival and the end-of-response hook runs
Served(c) ==
  /\ req[c].pc = "idle"
  /\ Generated(c) <= MaxSid
  /\ issued' = issued
  /\ sessionStore' = EndStore(sessionStore, Arrive(c))
  /\ cookie' = [cookie EXCEPT ![c] = EndCookie(cookie[c], Arrive(c))]
  /\ UNCHANGED <<req, pureVars>>

Answer(c, route, status, by, body) ==
  Response(c, route, status, by, body, Session(c), SessionID(c), SessionID(c))

Denied(c, route, by, mw) == Answer(c, route, mw.status, by, ErrorBody(mw.error))

\* storage.createSensor
createSensor(isActive) == [id |-> Len(sensors) + 1, isActive |-> isActive]

\* storage.createMeasurement
createMeasurement(sensorId, measurementType) ==
  [sensorId |-> sensorId, measurementType |-> measurementType]

\* GET /api/sensors
GetSensors(c) ==
  /\ Served(c)
  /\ last' = Answer(c, "sensors", 200, "handler", [sensors |-> sensors])
  /\ UNCHANGED dataVars

\* GET /api/measurements
GetMeasurements(c) ==
  /\ Served(c)
  /\ last' = Answer(c, "measurements", 200, "handler", [measurements |-> measurements])
  /\ UNCHANGED dataVars

\* POST /api/sensors/connect
Connect(c) ==
  /\ Served(c)
  /\ LET mw == requireRole("technician", Session(c))
     IN  IF mw.next
           THEN /\ Len(sensors) < MaxSensors
                /\ sensors' = Append(sensors, createSensor(TRUE))
                /\ last' = Answer(c, "connect", 200, "handler",
                                  [message |-> "Sensor connected successfully",
                                   sensor |-> createSensor(TRUE)])
           ELSE /\ last' = Denied(c, "connect", "requireRole", mw)
                /\ UNCHANGED sensors
  /\ UNCHANGED <<users, measurements, dataFiles>>

\* the measurements POST /api/sensors/extract generates: three types for
\* activeSensors.slice(0, 1)
ExtractedAll(activeSensors) ==
  LET F[i \in 0..Len(activeSensors)] ==
        IF i = 0 THEN <<>>
        ELSE F[i - 1] \o << createMeasurement(activeSensors[i].id, "CO2"),
                            createMeasurement(activeSensors[i].id, "temperature"),
                            createMeasurement(activeSensors[i].id, "humidity") >>
  IN  F[Len(activeSensors)]

Extracted(activeSensors) ==
  LET sensor == activeSensors[1]
  IN  << createMeasurement(sensor.id, "CO2"),
         createMeasurement(sensor.id, "temperature"),
         createMeasurement(sensor.id, "humidity") >>

\* POST /api/sensors/extract
Extract(c) ==
  /\ Served(c)
  /\ LET mw == requireRole("technician", Session(c))
         activeSensors == SelectSeq(sensors, LAMBDA s : s.isActive)
     IN  IF mw.next
           THEN IF Len(activeSensors) = 0
                  THEN /\ last' = Answer(c, "extract", 400, "handler",
                                         ErrorBody("No active sensors connected"))
                       /\ UNCHANGED measurements
                  ELSE /\ Len(measurements) + 3 <= MaxMeasurements
                       /\ measurements' = measurements \o Extracted(activeSensors)
                       /\ last' = Answer(c, "extract", 200, "handler",
                                         [message |-> "Data extracted successfully",
                                          measurements |-> Len(Extracted(activeSensors))])
           ELSE /\ last' = Denied(c, "extract", "requireRole", mw)
                /\ UNCHANGED measurements
  /\ UNCHANGED <<users, sensors, dataFiles>>

\* GET /api/measurements/export
Export(c) ==
  /\ Served(c)
  /\ LET mw == requireRole("technician", Session(c))
     IN  last' = IF mw.next
                   THEN Answer(c, "export", 200, "handler", [csv |-> measurements])
                   ELSE Denied(c, "export", "requireRole", mw)
  /\ UNCHANGED dataVars

\* POST /api/measurements: valid says whether insertMeasurementSchema.parse
\* accepts the body
PostMeasurement(c, valid) ==
  /\ Served(c)
  /\ LET mw == requireAuth(Session(c))
     IN  IF mw.next
           THEN IF valid
                  THEN /\ Len(measurements) < MaxMeasurements
                       /\ measurements' = Append(measurements, createMeasurement(1, "CO2"))
                       /\ last' = Answer(c, "postMeasurement", 201, "handler",
                                         [measurement |-> createMeasurement(1, "CO2")])
                  ELSE /\ last' = Answer(c, "postMeasurement", 400, "handler",
                                         [message |-> "Invalid measurement data"])
                       /\ UNCHANGED measurements
           ELSE /\ last' = Denied(c, "postMeasurement", "requireAuth", mw)
                /\ UNCHANGED measurements
  /\ UNCHANGED <<users, sensors, dataFiles>>

\* GET /api/uploads
GetUploads(c) ==
  /\ Served(c)
  /\ LET mw == requireAuth(Session(c))
     IN  last' = IF mw.next
                   THEN Answer(c, "getUploads", 200, "handler", [files |-> dataFiles])
                   ELSE Denied(c, "getUploads", "requireAuth", mw)
  /\ UNCHANGED dataVars

\* ({ password, ...user }) => user: every field of the user but password
SanitizedWhole(user) == user

Sanitized(user) == [f \in DOMAIN user \ {"password"} |-> user[f]]

\* GET /api/admin/users
AdminUsers(c) ==
  /\ Served(c)
  /\ LET mw == requireRole("admin", Session(c))
     IN  last' = IF mw.next
                   THEN Answer(c, "adminUsers", 200, "handler",
                               [users |-> [id \in DOMAIN users |-> Sanitized(users[id])]])
                   ELSE Denied(c, "adminUsers", "requireRole", mw)
  /\ UNCHANGED dataVars

\* storage.updateUserRole, for an id that is present
updateUserRoleAll(id, role) == [u \in DOMAIN users |-> [users[u] EXCEPT !.role = role]]

updateUserRole(id, role) == [users EXCEPT ![id] = [@ EXCEPT !.role = role]]

\* PATCH /api/admin/users/:id/role
PatchRole(c, id, role) ==
  /\ Served(c)
  /\ LET mw == requireRole("admin", Session(c))
     IN  IF mw.next
           THEN IF role \notin {"admin", "technician", "user"}
                  THEN /\ last' = Answer(c, "patchRole", 400, "handler",
                                         [message |-> "Invalid role"])
                       /\ UNCHANGED users
                  ELSE IF id \notin DOMAIN users
                         THEN /\ last' = Answer(c, "patchRole", 404, "handler",
                                                [message |-> "User not found"])
                              /\ UNCHANGED users
                         ELSE /\ users' = updateUserRole(id, role)
                              /\ last' = Answer(c, "patchRole", 200, "handler",
                                                Sanitized(updateUserRole(id, role)[id]))
           ELSE /\ last' = Denied(c, "patchRole", "requireRole", mw)
                /\ UNCHANGED users
  /\ UNCHANGED <<sensors, measurements, dataFiles>>

\* the uploads tried: no file, a file of another type, a CSV file of a header
\* and rows data lines of six values, a JSON array of rows records, and a
\* file named .json that does not parse
FileKinds == {"none", "txt", "csv", "json", "badjson"}

MaxRows == 1

Min(a, b) == IF a < b THEN a ELSE b

\* the sensor the rows of a CSV file are attached to: sensors[0], or the
\* "Imported Sensor" created when there is none
ImportSensors(rows) ==
  IF rows >= 1 /\ Len(sensors) = 0 THEN <<createSensor(FALSE)>> ELSE sensors

Imported(rows) ==
  [i \in 1..Min(rows, 10) |-> createMeasurement(ImportSensors(rows)[1].id, "CO2")]

\* storage.createDataFile
createDataFile(filename, recordCount) ==
  [id |-> Len(dataFiles) + 1, filename |-> filename, recordCount |-> recordCount]

\* POST /api/uploads
PostUpload(c, kind, rows) ==
  /\ Served(c)
  /\ LET mw == requireRole("technician", Session(c))
     IN  IF mw.next
           THEN CASE kind = "none" ->
                       /\ last' = Answer(c, "postUpload", 400, "handler",
                                         [message |-> "No file uploaded"])
                       /\ UNCHANGED <<sensors, measurements, dataFiles>>
                  [] kind = "txt" ->
                       /\ last' = Answer(c, "postUpload", 400, "handler",
                                         [message |-> "Invalid file type"])
                       /\ UNCHANGED <<sensors, measurements, dataFiles>>
                  [] kind = "badjson" ->
                       /\ last' = Answer(c, "postUpload", 400, "handler",
                                         [message |-> "Invalid JSON file"])
                       /\ UNCHANGED <<sensors, measurements, dataFiles>>
                  [] kind = "json" ->
                       /\ Len(dataFiles) < MaxFiles
                       /\ dataFiles' = Append(dataFiles, createDataFile(kind, rows))
                       /\ last' = Answer(c, "postUpload", 201, "handler",
                                         [file |-> createDataFile(kind, rows),
                                          recordsProcessed |-> rows])
                       /\ UNCHANGED <<sensors, measurements>>
                  [] kind = "csv" ->
                       /\ Len(dataFiles) < MaxFiles
                       /\ Len(measurements) + Min(rows, 10) <= MaxMeasurements
                       /\ sensors' = ImportSensors(rows)
                       /\ measurements' = measurements \o Imported(rows)
                       /\ dataFiles' = Append(dataFiles, createDataFile(kind, rows))
                       /\ last' = Answer(c, "postUpload", 201, "handler",
                                         [file |-> createDataFile(kind, rows),
                                          recordsProcessed |-> rows])
           ELSE /\ last' = Denied(c, "postUpload", "requireRole", mw)
                /\ UNCHANGED <<sensors, measurements, dataFiles>>
  /\ UNCHANGED users

\* the browser and the inputs tried under SpecRoutes; the browser logs in
\* when it holds no live session
RouteClients == {"c1"}

\* one account for each rank, and one whose role names an inherited member
RouteUsernames == {"admin", "cliente", "invitado", "mallory"}

PatchIds == {"u2", "u9"}

PatchRoles == {"admin", "superuser"}

NextRoutes ==
  \/ \E c \in RouteClients, u \in RouteUsernames :
       ~Known(c) /\ LoginStart(c, u, "good") /\ UNCHANGED clientVars
  \/ \E c \in RouteClients, o \in {"401", "ok"} : LoginReply(c, o, FALSE) /\ UNCHANGED clientVars
  \/ \E c \in RouteClients : LoginRegenerated(c) /\ UNCHANGED clientVars
  \/ \E c \in RouteClients : Logout(c, FALSE) /\ UNCHANGED clientVars
  \/ \E c \in RouteClients : GetUser(c) /\ UNCHANGED clientVars
  \/ \E c \in RouteClients : GetSensors(c) /\ UNCHANGED clientVars
  \/ \E c \in RouteClients : GetMeasurements(c) /\ UNCHANGED clientVars
  \/ \E c \in RouteClients : Connect(c) /\ UNCHANGED clientVars
  \/ \E c \in RouteClients : Extract(c) /\ UNCHANGED clientVars
  \/ \E c \in RouteClients : Export(c) /\ UNCHANGED clientVars
  \/ \E c \in RouteClients, valid \in BOOLEAN : PostMeasurement(c, valid) /\ UNCHANGED clientVars
  \/ \E c \in RouteClients : GetUploads(c) /\ UNCHANGED clientVars
  \/ \E c \in RouteClients : AdminUsers(c) /\ UNCHANGED clientVars
  \/ \E c \in RouteClients, id \in PatchIds, role \in PatchRoles : PatchRole(c, id, role) /\ UNCHANGED clientVars
  \/ \E c \in RouteClients, kind \in FileKinds, rows \in 1..MaxRows : PostUpload(c, kind, rows) /\ UNCHANGED clientVars

SpecRoutes == Init /\ [][NextRoutes]_vars

(***************************************************************************)
(* The pure role functions applied to drawn arguments                      *)
(***************************************************************************)
KnownRoles == {"admin", "technician", "user"}

RoleValues == KnownRoles \cup {"guest", "", "constructor", "toString", Undefined}

Permissions ==
  {"canAccessAnalytics", "canManageSensors", "canExportData", "canManageUsers",
   "canAccessAdvancedSettings"}

\* the exported permission predicates of hooks/use-auth.tsx, by name
ClientPermission(perm, userRole) ==
  CASE perm = "canAccessAnalytics" -> canAccessAnalytics(userRole)
    [] perm = "canManageSensors" -> canManageSensors(userRole)
    [] perm = "canExportData" -> canExportData(userRole)
    [] perm = "canManageUsers" -> canManageUsers(userRole)
    [] perm = "canAccessAdvancedSettings" -> canAccessAdvancedSettings(userRole)

\* the methods of the AuthProvider context add canAccessAdminPanel
ContextPermissions == Permissions \cup {"canAccessAdminPanel"}

\* the session the middleware is applied to
PureSession ==
  IF pin.hasUser
    THEN [user |-> Some(Identity("u0", "someone", pin.userRole))]
    ELSE EmptySession

InitRoles ==
  /\ InitServer
  /\ InitNoClient
  /\ users = SeedUsers
  /\ pin \in [userRole : RoleValues, requiredRole : KnownRoles,
              perm : ContextPermissions, hasUser : BOOLEAN]
  /\ pout = PureNone

EvalHasRole ==
  /\ "hasRole" \notin pout.done
  /\ pout' = [pout EXCEPT !.done = @ \cup {"hasRole"},
                          !.hasRole = hasRole(pin.userRole, pin.requiredRole)]
  /\ UNCHANGED <<authVars, dataVars, pin>>

EvalPermission ==
  /\ "permission" \notin pout.done
  /\ pin.perm \in Permissions
  /\ pout' = [pout EXCEPT !.done = @ \cup {"permission"},
                          !.perm = ClientPermission(pin.perm, pin.userRole)]
  /\ UNCHANGED <<authVars, dataVars, pin>>

EvalRequireRole ==
  /\ "requireRole" \notin pout.done
  /\ pout' = [pout EXCEPT !.done = @ \cup {"requireRole"},
                          !.server = requireRole(pin.requiredRole, PureSession)]
  /\ UNCHANGED <<authVars, dataVars, pin>>

EvalRequireAuth ==
  /\ "requireAuth" \notin pout.done
  /\ pout' = [pout EXCEPT !.done = @ \cup {"requireAuth"},
                          !.auth = requireAuth(PureSession)]
  /\ UNCHANGED <<authVars, dataVars, pin>>

\* the user the AuthProvider holds: the identity GET /api/user returned, or
\* null
PureUser == PureSession.user

EvalContext ==
  /\ "context" \notin pout.done
  /\ pout' = [pout EXCEPT !.done = @ \cup {"context"},
                          !.check = checkRole(PureUser, pin.requiredRole),
                          !.context = ContextPermission(pin.perm, PureUser)]
  /\ UNCHANGED <<authVars, dataVars, pin>>

NextRoles ==
  \/ EvalHasRole /\ UNCHANGED clientVars
  \/ EvalPermission /\ UNCHANGED clientVars
  \/ EvalContext /\ UNCHANGED clientVars
  \/ EvalRequireRole /\ UNCHANGED clientVars
  \/ EvalRequireAuth /\ UNCHANGED clientVars

SpecRoles == InitRoles /\ [][NextRoles]_vars

(***************************************************************************)
(* RoleGuard rendered once for drawn props and a drawn cached identity     *)
(***************************************************************************)
GuardRoles == KnownRoles \cup {Undefined}

GuardPermissions == Permissions \cup {Undefined}

GuardFallbacks == {Undefined, Null, "element"}

InitGuard ==
  /\ InitServer
  /\ InitNoClient
  /\ pin \in [userRole : RoleValues, hasUser : BOOLEAN,
              requiredRole : GuardRoles, perm : GuardPermissions,
              fallback : GuardFallbacks, hideWhenNoAccess : BOOLEAN]
  /\ pout = PureNone

GuardProps ==
  [requiredRole |-> pin.requiredRole, requiredPermission |-> pin.perm,
   fallback |-> pin.fallback, hideWhenNoAccess |-> pin.hideWhenNoAccess]

Render ==
  /\ "render" \notin pout.done
  /\ pout' = [pout EXCEPT !.done = @ \cup {"render"},
                          !.guard = RoleGuard(GuardProps, PureUser)]
  /\ UNCHANGED <<authVars, dataVars, pin>>

NextGuard == Render /\ UNCHANGED clientVars

SpecGuard == InitGuard /\ [][NextGuard]_vars

(***************************************************************************)
(* The AuthProvider and its two versions: hooks/use-auth.tsx keeps the     *)
(* identity in the server session, test-gee-connection.js in localStorage. *)
(* One tab is open; it runs its query on load and one mutation at a time.  *)
(***************************************************************************)
\* the browser whose tab is open
Tab == "c1"

\* what a function call ends with: a value, or an exception
Return(v) == [threw |-> FALSE, value |-> v]

Throw == [threw |-> TRUE, value |-> None]

\* try { ... } catch (error) { return null; }
CaughtNot(tried) == tried

Caught(tried) == IF tried.threw THEN Return(None) ELSE tried

\* what fetch gives: a rejection, or a response with a status and a body
\* that parses as JSON or does not
Rejected == [rejected |-> TRUE, status |-> 0, malformed |-> FALSE, body |-> NoBody]

Fetched(status, body) ==
  [rejected |-> FALSE, status |-> status, malformed |-> FALSE, body |-> body]

\* an answer that comes from something between the tab and the server
BadGateway == [rejected |-> FALSE, status |-> 502, malformed |-> TRUE, body |-> NoBody]

NotJson == [rejected |-> FALSE, status |-> 200, malformed |-> TRUE, body |-> NoBody]

Faults == {"network", "status", "malformed"}

\* the logout reads no body: what makes it fail is a rejection or a status
LogoutFaults == {"network", "status"}

FaultResponse(fault) ==
  CASE fault = "network" -> Rejected
    [] fault = "status" -> BadGateway
    [] fault = "malformed" -> NotJson

\* response.ok
Ok(status) == status >= 200 /\ status <= 299

\* use-auth.tsx lines 75-84, the body of the try
sessionQueryTry(res) ==
  IF res.rejected THEN Throw
  ELSE IF res.status = 401 THEN Return(None)
  ELSE IF ~Ok(res.status) THEN Throw
  ELSE IF res.malformed THEN Throw
  ELSE Return(Some(res.body))

\* loginMutation.mutationFn
loginMutationFn(res) ==
  IF res.rejected THEN Throw
  ELSE IF ~Ok(res.status) THEN Throw
  ELSE IF res.malformed THEN Throw
  ELSE Return(Some(res.body))

\* logoutMutation.mutationFn
logoutMutationFn(res) ==
  IF res.rejected THEN Throw
  ELSE IF ~Ok(res.status) THEN Throw
  ELSE Return(None)

\* onSuccess: queryClient.setQueryData(key, value); onError only shows a toast
setQueryDataAlways(cache, outcome) == outcome.value

setQueryData(cache, outcome) ==
  IF outcome.threw THEN cache ELSE outcome.value

\* JSON.stringify of an object: members that are undefined are left out
JSONstringify(obj) ==
  [t |-> "json", v |-> [f \in {g \in DOMAIN obj : obj[g] # Undefined} |-> obj[f]]]

\* JSON.parse of a stored string
JSONparse(entry) == IF entry.t = "json" THEN Return(entry.v) ELSE Throw

\* obj.f: a member that is not there reads as undefined
Member(obj, f) == IF f \in DOMAIN obj THEN obj[f] ELSE Undefined

\* the User the components read from a parsed object
AsUser(obj) ==
  [id |-> Member(obj, "id"), username |-> Member(obj, "username"),
   role |-> Member(obj, "role")]

\* String(value), as localStorage.setItem stores it
StringOf(v) == IF v = Undefined THEN "undefined" ELSE v

\* !storedUser: null and the empty string are falsy
StoredMissing(entry) == entry \in {Absent, Text("")}

\* test-gee-connection.js lines 175-182, the body of the try
localQueryTry(storage) ==
  IF StoredMissing(storage.user) \/ StoredMissing(storage.access_token)
    THEN Return(None)
    ELSE LET parsed == JSONparse(storage.user)
         IN  IF parsed.threw THEN Throw ELSE Return(Some(AsUser(parsed.value)))

\* lines 183-187: the catch removes both entries
localQueryStorage(storage) ==
  IF localQueryTry(storage).threw THEN NoStorage ELSE storage

\* lines 193-226: the answer of FastAPI /login, the two setItem, the identity
localLoginMutationFn(res, storage) ==
  IF res.rejected \/ ~Ok(res.status) \/ res.malformed
    THEN [threw |-> TRUE, value |-> None, storage |-> storage]
    ELSE LET identity == [id |-> res.body.id, username |-> res.body.username,
                          role |-> res.body.role]
         IN  [threw |-> FALSE, value |-> Some(identity),
              storage |-> [user |-> JSONstringify(identity),
                           access_token |-> Text(StringOf(res.body.access_token))]]

\* lines 244-248: both entries are removed
localLogoutMutationFn(storage) ==
  [threw |-> FALSE, value |-> None, storage |-> NoStorage]

\* getAuthHeaders: the Authorization header of the stored token, if any
getAuthHeaders(storage) ==
  IF StoredMissing(storage.access_token) THEN {}
  ELSE {<<"Authorization", storage.access_token.s>>}

\* the answer FastAPI /login gives the tab
CollabResponse(outcome, username) ==
  CASE outcome = "unreachable" -> Rejected
    [] outcome = "401" -> Fetched(401, ErrorBody("Incorrect username or password"))
    [] outcome = "500" -> Fetched(500, ErrorBody("Internal Server Error"))
    [] outcome = "ok" -> Fetched(200, Accounts[username])

Apps == {"session", "local"}

\* what localStorage may hold when the page loads
StoredUsers == {Absent, Text("{"), JSONstringify(UserBody(Accounts["cliente"]))}

StoredTokens == {Absent, Text("jwt")}

LoginNames == {"", "admin", "cliente"}

LoginPasswords == {"good", "bad"}

InitClient ==
  /\ InitServer
  /\ pin = PureIdle
  /\ pout = PureNone
  /\ \E app \in Apps :
       /\ client = ClientStart(app)
       /\ localStorage \in IF app = "local"
                             THEN [user : StoredUsers, access_token : StoredTokens]
                             ELSE {NoStorage}

\* lib/queryClient, the QueryClient both versions import: its default options
\* decide whether a query that has its data is run again (on focus, on an
\* interval, when stale).  The cached identity is read once per page load
\* and changed by the mutations only, so it is not.
QueryRefetches == FALSE

\* the query runs when the page loads, and again only if the client refetches
QueryRuns == client.pc = "start" \/ (QueryRefetches /\ client.pc = "ready")

Settled(op, outcome) ==
  [client EXCEPT !.pc = "ready", !.op = op,
                 !.result = IF outcome.threw THEN "error" ELSE "ok",
                 !.user = setQueryData(client.user, outcome)]

Loaded(cause, outcome) ==
  [client EXCEPT !.pc = "ready", !.op = "init",
                 !.result = IF outcome.threw THEN "error" ELSE "ok",
                 !.user = outcome.value,
                 !.init = [cause |-> cause, threw |-> outcome.threw,
                           value |-> outcome.value]]

\* the query of use-auth.tsx: GET /api/user, answered by the server or not
SessionQuery(fault) ==
  /\ client.app = "session"
  /\ QueryRuns
  /\ IF fault = "none"
       THEN /\ GetUser(Tab)
            /\ client' = Loaded(IF last'.status = 401 THEN "401" ELSE "ok",
                                Caught(sessionQueryTry(Fetched(last'.status, last'.body))))
       ELSE /\ client' = Loaded(fault, Caught(sessionQueryTry(FaultResponse(fault))))
            /\ UNCHANGED <<authVars, dataVars, pureVars>>
  /\ UNCHANGED localStorage

\* loginMutation of use-auth.tsx: POST /api/login reaches the server, or the
\* fetch fails before it does
SessionLogin(username, password, fault) ==
  /\ client.app = "session"
  /\ client.pc = "ready"
  /\ IF fault = "none"
       THEN /\ LoginStart(Tab, username, password)
            /\ client' = [client EXCEPT !.pc = "login", !.op = "login",
                                        !.result = "none"]
       ELSE /\ client' = Settled("login", loginMutationFn(FaultResponse(fault)))
            /\ UNCHANGED <<authVars, dataVars, pureVars>>
  /\ UNCHANGED localStorage

\* the answer of POST /api/login arrives
SessionLoginSettle ==
  /\ client.app = "session"
  /\ client.pc = "login"
  /\ req[Tab].pc = "idle"
  /\ client' = Settled("login", loginMutationFn(Fetched(last.status, last.body)))
  /\ UNCHANGED <<authVars, dataVars, pureVars, localStorage>>

\* logoutMutation of use-auth.tsx
SessionLogout(fault) ==
  /\ client.app = "session"
  /\ client.pc = "ready"
  /\ IF fault = "none"
       THEN /\ Logout(Tab, FALSE)
            /\ client' = Settled("logout",
                                 logoutMutationFn(Fetched(last'.status, last'.body)))
       ELSE /\ client' = Settled("logout", logoutMutationFn(FaultResponse(fault)))
            /\ UNCHANGED <<authVars, dataVars, pureVars>>
  /\ UNCHANGED localStorage

\* the query of test-gee-connection.js
LocalQuery ==
  /\ client.app = "local"
  /\ QueryRuns
  /\ client' = Loaded(IF localQueryTry(localStorage).threw THEN "malformed"
                      ELSE IF localQueryTry(localStorage).value = None THEN "missing"
                      ELSE "ok",
                      Caught(localQueryTry(localStorage)))
  /\ localStorage' = localQueryStorage(localStorage)
  /\ UNCHANGED <<authVars, dataVars, pureVars>>

\* loginMutation of test-gee-connection.js, which calls FastAPI itself
LocalLogin(username, password, outcome) ==
  /\ client.app = "local"
  /\ client.pc = "ready"
  /\ outcome \in CollabOutcomes(username, password)
  /\ LET out == localLoginMutationFn(CollabResponse(outcome, username), localStorage)
     IN  /\ client' = Settled("login", out)
         /\ localStorage' = out.storage
  /\ UNCHANGED <<authVars, dataVars, pureVars>>

\* logoutMutation of test-gee-connection.js
LocalLogout ==
  /\ client.app = "local"
  /\ client.pc = "ready"
  /\ LET out == localLogoutMutationFn(localStorage)
     IN  /\ client' = Settled("logout", out)
         /\ localStorage' = out.storage
  /\ UNCHANGED <<authVars, dataVars, pureVars>>

\* the page is loaded again: the cache is the tab's, the cookie and
\* localStorage are the browser's
Reload ==
  /\ client.pc = "ready"
  /\ client' = ClientStart(client.app)
  /\ UNCHANGED <<authVars, dataVars, pureVars, localStorage>>

NextClient ==
  \/ \E fault \in Faults \cup {"none"} : SessionQuery(fault)
  \/ \E u \in LoginNames, p \in LoginPasswords, fault \in Faults \cup {"none"} :
       SessionLogin(u, p, fault)
  \/ \E o \in {"unreachable", "401", "500", "ok"} :
       LoginReply(Tab, o, FALSE) /\ UNCHANGED clientVars
  \/ LoginRegenerated(Tab) /\ UNCHANGED clientVars
  \/ SessionLoginSettle
  \/ \E fault \in LogoutFaults \cup {"none"} : SessionLogout(fault)
  \/ LocalQuery
  \/ \E u \in LoginNames, p \in LoginPasswords,
        o \in {"unreachable", "401", "500", "ok"} : LocalLogin(u, p, o)
  \/ LocalLogout
  \/ Reload

SpecClient == InitClient /\ [][NextClient]_vars

(***************************************************************************)
(* Properties                                                              *)
(***************************************************************************)
\* the rank of the specification: admin 3, technician 2, user 1, else 0
Rank(role) ==
  CASE role = "admin" -> 3
    [] role = "technician" -> 2
    [] role = "user" -> 1
    [] OTHER -> 0

\* the rank a route asks of the session, as the specification lists it
\* (0: any authenticated identity)
NeededRank(route) ==
  CASE route \in {"connect", "extract", "postUpload", "export"} -> 2
    [] route \in {"adminUsers", "patchRole"} -> 3
    [] OTHER -> 0

GuardedRoutes ==
  {"connect", "extract", "postUpload", "export", "adminUsers", "patchRole",
   "postMeasurement"}

RoleRoutes == GuardedRoutes \ {"postMeasurement"}

\* the response r answers a request whose session holds an identity ranked
\* high enough for its route
Authorized(r) ==
  /\ r.route \in GuardedRoutes
  /\ r.session.user # None
  /\ Rank(r.session.user[1].role) >= NeededRank(r.route)

Discloses(r) == r.route \in {"export", "adminUsers"} /\ r.status = 200

\* C1: the sensor, measurement, data file and user stores change, and export
\* or user listing data is returned, only in answering a request whose
\* session holds an identity of sufficient rank for the route.
C1_OnlyAuthorizedRequestsAct ==
  [][/\ dataVars' # dataVars => Authorized(last')
     /\ Discloses(last') => Authorized(last')]_vars

\* C2: a route behind requireRole(minRole) answers 401 "Authentication
\* required" when the session has no user, 403 "Insufficient permissions"
\* when the user's rank is below rank(minRole), and runs its handler only
\* when rank(session.role) >= rank(minRole).
C2_RequireRoleThreeOutcomes ==
  last.route \in RoleRoutes =>
    /\ last.session.user = None =>
         /\ last.status = 401
         /\ last.by = "requireRole"
         /\ last.body = ErrorBody("Authentication required")
    /\ (last.session.user # None
          /\ Rank(last.session.user[1].role) < NeededRank(last.route)) =>
         /\ last.status = 403
         /\ last.by = "requireRole"
         /\ last.body = ErrorBody("Insufficient permissions")
    /\ last.by = "handler" =>
         /\ last.session.user # None
         /\ Rank(last.session.user[1].role) >= NeededRank(last.route)

\* C3: requireAuth answers 401 "Authentication required" without running
\* the handler exactly when the session has no user; otherwise the handler
\* runs and answers, whatever the user's role.
C3_RequireAuth ==
  last.route \in {"postMeasurement", "getUploads"} =>
    IF last.session.user = None
      THEN /\ last.status = 401
           /\ last.by = "requireAuth"
           /\ last.body = ErrorBody("Authentication required")
      ELSE /\ last.by = "handler"
           /\ last.status \in {200, 201, 400}

C3_Witness ==
  /\ last.route = "postMeasurement"
  /\ last.status = 201
  /\ last.session.user # None
  /\ last.session.user[1].role = "guest"

\* C4: for roles r1, r2 in {admin, technician, user}, hasRole(r1, r2) is
\* rank(r1) >= rank(r2), and requireRole(r2) lets a session of role r1 pass
\* in exactly the same cases.
C4_HasRoleIsRankOrder ==
  pin.userRole \in KnownRoles =>
    /\ "hasRole" \in pout.done =>
         pout.hasRole = (Rank(pin.userRole) >= Rank(pin.requiredRole))
    /\ ("requireRole" \in pout.done /\ pin.hasUser) =>
         pout.server.next = (Rank(pin.userRole) >= Rank(pin.requiredRole))

C4_Witness ==
  /\ pin.userRole = "technician"
  /\ pin.requiredRole = "technician"
  /\ pin.hasUser
  /\ {"hasRole", "requireRole"} \subseteq pout.done
  /\ pout.hasRole
  /\ pout.server.next

\* C5: for a role outside {admin, technician, user}, hasRole is false for
\* every required role and requireRole answers 403 for every required role.
C5_UnknownRolesFailClosed ==
  pin.userRole \notin KnownRoles =>
    /\ "hasRole" \in pout.done => ~pout.hasRole
    /\ ("requireRole" \in pout.done /\ pin.hasUser) => pout.server.status = 403

\* the least role the specification gives each permission
MinRole(perm) ==
  IF perm \in {"canAccessAnalytics", "canManageSensors", "canExportData"}
    THEN "technician"
    ELSE "admin"

\* C6: for every role value and permission P, the client predicate for P
\* equals whether requireRole(minRole(P)) lets a session of that role pass.
C6_ClientServerAgree ==
  ({"permission", "requireRole"} \subseteq pout.done
     /\ pin.hasUser /\ pin.requiredRole = MinRole(pin.perm)) =>
    pout.perm = pout.server.next

\* the session ids in use: stored, held in a cookie, or carried by a request
\* in flight
SessionIds ==
  DOMAIN sessionStore
    \cup {cookie[c] : c \in Clients}
    \cup {req[c].sid : c \in Clients} \cup {req[c].sid0 : c \in Clients}

\* the step in which the login of browser c is answered
LoginAnswered(c) == req[c].pc \in {"fetch", "regenerate"} /\ req'[c].pc = "idle"

\* C7: when a login is answered 200, the session id it issues differs from
\* every session id that existed before, the pre-login id resolves to no
\* stored session, and the new session holds the identity the collaborator
\* returned.
C7_SessionFixationResistance ==
  [][\A c \in Clients :
       (LoginAnswered(c) /\ last'.status = 200) =>
         /\ last'.sid \notin SessionIds
         /\ last'.sid0 \notin DOMAIN sessionStore'
         /\ last'.sid \in DOMAIN sessionStore'
         /\ sessionStore'[last'.sid].user = req[c].data
         /\ cookie'[c] = last'.sid]_vars

\* a login was answered 200 while another browser holds the pre-login id
C7_Witness ==
  /\ last.route = "login"
  /\ last.status = 200
  /\ \E c \in Clients \ {last.client} :
       cookie[c] = last.sid0 /\ cookie[c] \notin DOMAIN sessionStore

\* C8: the body of a 200 login response has the fields id, username and
\* role and no other.
C8_LoginBodyHasNoSecret ==
  (last.route = "login" /\ last.status = 200) =>
    DOMAIN last.body = {"id", "username", "role"}

\* C9: when the collaborator rejects the credentials the login is answered
\* 401, the session store and the cookie are left as they were, and the body
\* carries an error message only.
C9_RejectedLogin ==
  [][\A c \in Clients :
       (LoginAnswered(c) /\ last'.status = 401) =>
         /\ sessionStore' = sessionStore
         /\ cookie' = cookie
         /\ DOMAIN last'.body = {"error"}
         /\ last'.body.error = "Invalid username or password"]_vars

C9_Witness ==
  /\ last.route = "login"
  /\ last.status = 401
  /\ last.session.user # None
  /\ last.sid0 \in DOMAIN sessionStore

\* no stored session is bound to an identity unless it was stored, bound to
\* the same identity, before the step
NoNewBinding ==
  \A s \in DOMAIN sessionStore' :
    sessionStore'[s].user # None =>
      s \in DOMAIN sessionStore /\ sessionStore[s] = sessionStore'[s]

\* C10: a login that fails for the collaborator being unreachable or in
\* error, or for the session regeneration failing, is answered 500, and no
\* step of a login other than its 200 answer binds a stored session to an
\* identity.
C10_LoginAtomic ==
  [][\A c \in Clients :
       req'[c] # req[c] =>
         /\ (LoginAnswered(c) /\ last'.status \notin {200, 401}) =>
              last'.status = 500
         /\ ~(LoginAnswered(c) /\ last'.status = 200) => NoNewBinding]_vars

\* a login failed on the session regeneration
C10_Witness ==
  /\ last.route = "login"
  /\ last.status = 500
  /\ last.body = ErrorBody("Session error")

\* the login of browser c is in progress and started from a session without
\* identity
LoginInProgress(c) ==
  req[c].pc \in {"fetch", "regenerate"} /\ req[c].orig.user = None

\* browser d presents the session id the login of browser c started from
Presents(d, c) == cookie[d] # 0 /\ cookie[d] \in {cookie[c], req[c].sid0}

\* the step answers a request of browser d other than a login
Observed(d) == last' # last /\ last'.client = d /\ last'.route # "login"

\* C11: while a login that started without identity is in progress, a request
\* of another browser that presents the pre-login session id sees no
\* identity and the pre-login id resolves to no identity; when the login is
\* answered 200 the identity is bound under the regenerated id only.
C11_NoPartialLogin ==
  [][\A c \in Clients :
       LoginInProgress(c) =>
         /\ \A d \in Clients \ {c} :
              (Presents(d, c) /\ Observed(d)) => last'.session.user = None
         /\ req[c].sid0 \in DOMAIN sessionStore' =>
              sessionStore'[req[c].sid0].user = None
         /\ (LoginAnswered(c) /\ last'.status = 200) =>
              /\ last'.sid # req[c].sid0
              /\ \A s \in DOMAIN sessionStore' :
                   (sessionStore'[s].user # None
                      /\ (s \notin DOMAIN sessionStore
                            \/ sessionStore[s] # sessionStore'[s])) =>
                     s = last'.sid]_vars

\* a browser holding the same stale cookie asked for the current user, and
\* was answered 401, after the login started and before it was answered
C11_Witness ==
  \E c \in Clients, d \in Clients :
    /\ c # d
    /\ req[c].pc = "regenerate"
    /\ req[c].orig.user = None
    /\ cookie[c] # 0
    /\ cookie[d] = cookie[c]
    /\ req[c].sid0 # cookie[c]
    /\ last.client = d
    /\ last.route = "user"
    /\ last.status = 401
    /\ last.sid0 > req[c].sid0

\* C12: a logout whose store.destroy reports no error is answered 200 whether
\* the request presents a live session, a session already logged out, an
\* unknown id or no cookie at all; after it the presented id resolves to no
\* stored session, and when it resolved to none before, the store is as it
\* was.
C12_LogoutIdempotent ==
  [][\A c \in Clients :
       Logout(c, FALSE) =>
         /\ last'.route = "logout"
         /\ last'.status = 200
         /\ SessionID(c) \notin DOMAIN sessionStore'
         /\ cookie'[c] \notin DOMAIN sessionStore'
         /\ ~Known(c) => sessionStore' = sessionStore]_vars

\* a logout was answered 200 to a browser whose cookie names a session that
\* was destroyed before: the request ran on a generated session
C12_Witness ==
  /\ last.route = "logout"
  /\ last.status = 200
  /\ cookie[last.client] # 0
  /\ cookie[last.client] \notin DOMAIN sessionStore
  /\ last.sid0 # cookie[last.client]

\* the routes that answer 401 to a request without identity
IdentityRoutes == GuardedRoutes \cup {"getUploads", "user"}

\* C13: a logout removes the presented session from the store; a session id
\* that was generated and resolves to no stored session never resolves to
\* one again; a request whose cookie resolves to no stored session is
\* answered 401 by GET /user and by every guarded route; and a session enters
\* the store only in a login answered 200 and leaves it only in a logout or
\* in the regeneration of a later login.
C13_LoggedOutStaysOut ==
  [][/\ \A c \in Clients :
          Logout(c, FALSE) => cookie'[c] \notin DOMAIN sessionStore'
     /\ \A s \in 1..issued :
          s \notin DOMAIN sessionStore => s \notin DOMAIN sessionStore'
     /\ \A c \in Clients :
          (~Known(c) /\ Observed(c) /\ last'.route \in IdentityRoutes) =>
            last'.status = 401
     /\ \A s \in DOMAIN sessionStore' \ DOMAIN sessionStore :
          \E c \in Clients :
            LoginAnswered(c) /\ last'.status = 200 /\ last'.sid = s
     /\ \A s \in DOMAIN sessionStore \ DOMAIN sessionStore' :
          \E c \in Clients :
            \/ Logout(c, FALSE) /\ SessionID(c) = s
            \/ /\ req[c].pc = "fetch"
               /\ req'[c].pc = "regenerate"
               /\ req[c].sid0 = s]_vars

\* a guarded route answered 401 to a browser presenting the cookie of a
\* session that was logged out
C13_Witness ==
  /\ last.route = "adminUsers"
  /\ last.status = 401
  /\ cookie[last.client] # 0
  /\ cookie[last.client] \notin DOMAIN sessionStore

\* C14: a request carrying the session a login issued, to a route behind
\* requireRole(m), reaches the handler exactly when the rank of the role the
\* login returned is at least rank(m), and is answered 403 otherwise.
C14_IssuedSessionRankDecides ==
  (last.route \in RoleRoutes /\ last.session.user # None) =>
    IF Rank(last.session.user[1].role) >= NeededRank(last.route)
      THEN last.by = "handler"
      ELSE last.by = "requireRole" /\ last.status = 403

\* C15: GET /user answers 200 with the id, username and role, and nothing
\* else, of the identity stored under the presented session id, and 401
\* "Not authenticated" when that id resolves to no stored session or to one
\* without identity; it leaves the session store as it was.
C15_CurrentUser ==
  [][\A c \in Clients :
       GetUser(c) =>
         /\ last'.route = "user"
         /\ IF Known(c) /\ sessionStore[cookie[c]].user # None
              THEN LET user == sessionStore[cookie[c]].user[1]
                   IN  /\ last'.status = 200
                       /\ last'.body = [id |-> user.id, username |-> user.username,
                                        role |-> user.role]
              ELSE /\ last'.status = 401
                   /\ last'.body = ErrorBody("Not authenticated")
         /\ sessionStore' = sessionStore]_vars

\* GET /user answered 200 while the store also holds the session of another
\* user
C15_Witness ==
  /\ last.route = "user"
  /\ last.status = 200
  /\ \E s \in DOMAIN sessionStore :
       sessionStore[s].user # None /\ sessionStore[s].user[1].id # last.body.id

\* C16: no body answered by GET /user, GET /admin/users, POST /login or
\* PATCH /admin/users/:id/role has a password field, at the top level or in
\* any user record it lists.
C16_NoPasswordInBodies ==
  last.route \in {"user", "adminUsers", "login", "patchRole"} =>
    /\ "password" \notin DOMAIN last.body
    /\ (last.route = "adminUsers" /\ last.status = 200) =>
         \A id \in DOMAIN last.body.users :
           "password" \notin DOMAIN last.body.users[id]

\* the user list was returned while the stored users hold passwords
C16_Witness ==
  /\ last.route = "adminUsers"
  /\ last.status = 200
  /\ DOMAIN last.body.users = DOMAIN users
  /\ \E id \in DOMAIN users : users[id].password # ""

\* C17: PATCH /admin/users/:id/role in a session of role admin answers 400
\* and leaves the users as they were for a role outside {admin, technician,
\* user}; else 404, users as they were, for an id that is not stored; else
\* 200 with the stored user's record without its password, and of the users
\* only that user's role field has changed, to the role asked.
C17_PatchRole ==
  [][\A c \in Clients, id \in PatchIds, role \in PatchRoles :
       (/\ last'.route = "patchRole"
        /\ Session(c).user # None
        /\ Session(c).user[1].role = "admin"
        /\ PatchRole(c, id, role)) =>
         /\ last'.route = "patchRole"
         /\ IF role \notin KnownRoles
              THEN last'.status = 400 /\ users' = users
              ELSE IF id \notin DOMAIN users
                     THEN last'.status = 404 /\ users' = users
                     ELSE /\ last'.status = 200
                          /\ DOMAIN users' = DOMAIN users
                          /\ \A u \in DOMAIN users \ {id} : users'[u] = users[u]
                          /\ DOMAIN users'[id] = DOMAIN users[id]
                          /\ \A f \in DOMAIN users[id] \ {"role"} :
                               users'[id][f] = users[id][f]
                          /\ users'[id].role = role
                          /\ last'.body =
                               [f \in DOMAIN users'[id] \ {"password"} |-> users'[id][f]]
         /\ UNCHANGED <<sensors, measurements, dataFiles>>]_vars

\* an admin changed the role of the stored user u2
C17_Witness ==
  /\ last.route = "patchRole"
  /\ last.status = 200
  /\ last.session.user[1].role = "admin"
  /\ last.body.id = "u2"
  /\ users["u2"].role = "admin"
  /\ users["u1"] = SeedUsers["u1"]

\* C18: a login whose username or password is missing or empty is answered
\* 400 "Username and password are required" at once: no call to the
\* collaborator is left in flight, and the session store and the cookie are
\* as they were.
C18_LoginMissingFields ==
  [][\A c \in Clients, username \in AuthUsernames, password \in Passwords :
       (/\ \/ username \in {"", Undefined}
           \/ password \in {"", Undefined}
        /\ LoginStart(c, username, password)) =>
         /\ last'.route = "login"
         /\ last'.client = c
         /\ last'.status = 400
         /\ last'.body = ErrorBody("Username and password are required")
         /\ req'[c].pc = "idle"
         /\ sessionStore' = sessionStore
         /\ cookie' = cookie]_vars

\* a login was answered 400 to a browser that holds a live session
C18_Witness ==
  /\ last.route = "login"
  /\ last.status = 400
  /\ last.sid0 \in DOMAIN sessionStore
  /\ sessionStore[last.sid0].user # None
  /\ cookie[last.client] = last.sid0

\* C19: every login that has sent its call to the collaborator is eventually
\* answered, whether or not the collaborator ever replies.
C19_LoginEventuallyAnswered ==
  \A c \in Clients : (req[c].pc = "fetch") ~> (req[c].pc = "idle")

\* C20: for every role value, canAccessAnalytics, canManageSensors and
\* canExportData hold exactly when rank(role) >= rank(technician), and
\* canManageUsers, canAccessAdvancedSettings and canAccessAdminPanel exactly
\* when rank(role) >= rank(admin), both as exported functions and as methods
\* of the AuthProvider context.
C20_PermissionMapping ==
  /\ "permission" \in pout.done =>
       pout.perm = (Rank(pin.userRole) >= Rank(MinRole(pin.perm)))
  /\ ("context" \in pout.done /\ pin.hasUser) =>
       pout.context = (Rank(pin.userRole) >= Rank(MinRole(pin.perm)))

\* canAccessAdminPanel was granted to an admin
C20_Witness ==
  /\ pin.perm = "canAccessAdminPanel"
  /\ pin.userRole = "admin"
  /\ pin.hasUser
  /\ "context" \in pout.done
  /\ pout.context

C30_ExtractThree ==
  [][\A c \in Clients :
       (/\ last'.route = "extract"
        /\ Session(c).user # None
        /\ Rank(Session(c).user[1].role) >= 2
        /\ Extract(c)) =>
         LET active == SelectSeq(sensors, LAMBDA x : x.isActive)
             n == Len(measurements)
         IN  /\ IF Len(active) = 0
                  THEN /\ last'.status = 400
                       /\ measurements' = measurements
                  ELSE /\ last'.status = 200
                       /\ last'.body.measurements = 3
                       /\ Len(measurements') = n + 3
                       /\ SubSeq(measurements', 1, n) = measurements
                       /\ measurements'[n + 1].measurementType = "CO2"
                       /\ measurements'[n + 2].measurementType = "temperature"
                       /\ measurements'[n + 3].measurementType = "humidity"
                       /\ \A i \in (n + 1)..(n + 3) :
                            measurements'[i].sensorId = active[1].id
             /\ UNCHANGED <<sensors, users, dataFiles>>]_vars

\* an extraction was answered 200 while two sensors are active
C30_Witness ==
  /\ last.route = "extract"
  /\ last.status = 200
  /\ Len(SelectSeq(sensors, LAMBDA x : x.isActive)) >= 2
  /\ Len(measurements) = 3

\* what the guard's decision should be, role and permission taken apart
GuardRolePasses ==
  pin.requiredRole = Undefined \/ checkRole(PureUser, pin.requiredRole)

GuardPermissionPasses ==
  pin.perm = Undefined \/ ContextPermission(pin.perm, PureUser)

\* C24: a rendered RoleGuard grants access exactly when the role check is
\* absent or passes and the permission check is absent or passes, and it
\* called the permission predicate only when the role check was absent or
\* passed.
C24_GuardDecision ==
  "render" \in pout.done =>
    /\ pout.guard.hasAccess = (GuardRolePasses /\ GuardPermissionPasses)
    /\ (pout.guard.called \cap Permissions # {}) => GuardRolePasses
    /\ pout.guard.called \cap Permissions \subseteq {pin.perm}

\* a guard with a role and a permission whose role check failed while the
\* permission alone would have passed
C24_Witness ==
  /\ "render" \in pout.done
  /\ pin.requiredRole # Undefined
  /\ pin.perm # Undefined
  /\ ~GuardRolePasses
  /\ GuardPermissionPasses
  /\ ~pout.guard.hasAccess

BetweenLoads == client.pc # "start" /\ client'.pc # "start"

\* C21: between two loads of the page the cached identity changes only when
\* a login succeeds, to the identity the login returned, and when a logout
\* succeeds, to null; a login or a logout that fails leaves the cached
\* identity, and in the localStorage version the stored entries, as they
\* were.  The cache is one value, client.user, which every reader reads.
C21_CacheChangesOnlyOnSuccess ==
  [][/\ (BetweenLoads /\ client'.user # client.user) =>
          \/ /\ client.app = "session"
             /\ client.pc = "login"
             /\ last.route = "login"
             /\ last.status = 200
             /\ client'.user = Some(last.body)
          \/ /\ client.app = "local"
             /\ client'.op = "login"
             /\ client'.result = "ok"
             /\ \E u \in DOMAIN Accounts :
                  /\ client'.user = Some(UserBody(Accounts[u]))
                  /\ localStorage'.user = JSONstringify(UserBody(Accounts[u]))
          \/ /\ client'.op = "logout"
             /\ client'.result = "ok"
             /\ client'.user = None
     /\ \A u \in LoginNames, p \in LoginPasswords, fault \in Faults :
          SessionLogin(u, p, fault) => client'.user = client.user
     /\ (SessionLoginSettle /\ last.status # 200) => client'.user = client.user
     /\ \A fault \in LogoutFaults :
          SessionLogout(fault) => client'.user = client.user
     /\ \A u \in LoginNames, p \in LoginPasswords, o \in {"unreachable", "401", "500"} :
          LocalLogin(u, p, o) =>
            client'.user = client.user /\ localStorage' = localStorage]_vars

\* a login has failed while an identity was cached, and the identity is
\* still cached
C21_Witness ==
  /\ client.pc = "ready"
  /\ client.op = "login"
  /\ client.result = "error"
  /\ client.user # None

\* C22: the query that initialises the AuthProvider never ends with an
\* exception, and when the read failed (the fetch rejected, the status was
\* not OK, the body or the stored text was not JSON, an entry was missing)
\* the identity it gives is null.
C22_InitNeverThrows ==
  client.init.cause # "none" =>
    /\ ~client.init.threw
    /\ client.init.cause \in {"network", "status", "malformed", "missing", "401"} =>
         client.init.value = None

\* the page was loaded with a stored user that is not JSON, next to a token
C22_Witness ==
  /\ client.app = "local"
  /\ client.pc = "ready"
  /\ client.op = "init"
  /\ client.init.cause = "malformed"

\* C23: while no identity is cached, hasRole of the context is false for
\* every role and every permission predicate is false; and after a logout
\* that succeeded no identity is cached.
C23_NoIdentityNoAccess ==
  /\ client.user = None =>
       /\ \A r \in KnownRoles : ~checkRole(client.user, r)
       /\ \A perm \in ContextPermissions : ~ContextPermission(perm, client.user)
  /\ (client.op = "logout" /\ client.result = "ok") => client.user = None

\* a logout succeeded that ended the session of a logged-in user
C23_Witness ==
  /\ client.app = "session"
  /\ client.op = "logout"
  /\ client.result = "ok"
  /\ last.route = "logout"
  /\ last.session.user # None
  /\ client.user = None

====
